---- MODULE Spec2Model ----
(***************************************************************************)
(* A model of stock_dashboard.py: the preprocessing of the loaded price    *)
(* table and the derived tables of the dashboard (yearly returns and their *)
(* CSV export, volatility ranking, sector performance, correlation matrix, *)
(* monthly returns).                                                       *)
(*                                                                         *)
(* Numbers.  The script computes in float64.  A float is modelled as an    *)
(* exact rational [n, d] in lowest terms with d > 0, extended by the three *)
(* IEEE special values the script can produce: d = 0 with n = 1 is +inf,   *)
(* n = -1 is -inf and n = 0 is NaN (pandas' null).  Rounding error and the *)
(* sign of zero are not modelled.                                          *)
(*                                                                         *)
(* Data.  A store holds two tables; a table holds at most one row per date *)
(* and every close is a non-negative whole number (0 included, the case of *)
(* a division by zero).  Tickers therefore have no two records of one      *)
(* date.                                                                   *)
(***************************************************************************)
EXTENDS Integers, Sequences, FiniteSets, TLC

\* ------------------------------------------------------------------ bounds
\* closes are drawn from 0 .. MaxClose
MaxClose == 2

\* ------------------------------------------------------- float64 arithmetic
RECURSIVE GCD(_, _)
GCD(a, b) == IF b = 0 THEN a ELSE GCD(b, a % b)

Abs(x) == IF x < 0 THEN -x ELSE x
Sgn(x) == IF x < 0 THEN -1 ELSE IF x > 0 THEN 1 ELSE 0

Mk(n, d) ==
    IF d = 0 THEN [n |-> Sgn(n), d |-> 0]
    ELSE LET g == GCD(Abs(n), Abs(d))
         IN  [n |-> (Sgn(d) * n) \div g, d |-> Abs(d) \div g]

NaN    == [n |-> 0, d |-> 0]
Zero   == [n |-> 0, d |-> 1]
One    == [n |-> 1, d |-> 1]
Num(i) == [n |-> i, d |-> 1]

IsNaN(x)    == x.d = 0 /\ x.n = 0
IsInf(x)    == x.d = 0 /\ x.n # 0
IsFinite(x) == x.d # 0

Neg(x) == [n |-> -x.n, d |-> x.d]

Add(x, y) ==
    IF IsNaN(x) \/ IsNaN(y) THEN NaN
    ELSE IF IsInf(x) /\ IsInf(y) THEN (IF x.n = y.n THEN x ELSE NaN)
    ELSE IF IsInf(x) THEN x
    ELSE IF IsInf(y) THEN y
    ELSE Mk(x.n * y.d + y.n * x.d, x.d * y.d)

Sub(x, y) == Add(x, Neg(y))

Mul(x, y) ==
    IF IsNaN(x) \/ IsNaN(y) THEN NaN
    ELSE IF IsInf(x) \/ IsInf(y)
         THEN (IF x.n = 0 \/ y.n = 0 THEN NaN ELSE Mk(Sgn(x.n) * Sgn(y.n), 0))
    ELSE Mk(x.n * y.n, x.d * y.d)

\* IEEE division: x/0 is +-inf for x # 0 and NaN for x = 0; nothing is raised
Div(x, y) ==
    IF IsNaN(x) \/ IsNaN(y) THEN NaN
    ELSE IF IsInf(y) THEN (IF IsInf(x) THEN NaN ELSE Zero)
    ELSE IF IsInf(x) THEN (IF y.n < 0 THEN Neg(x) ELSE x)
    ELSE IF y.n = 0 THEN Mk(Sgn(x.n), 0)
    ELSE Mk(x.n * y.d, x.d * y.n)

\* x < y on non-NaN values
Less(x, y) ==
    IF IsInf(x) THEN x.n < 0 /\ y # x
    ELSE IF IsInf(y) THEN y.n > 0
    ELSE x.n * y.d < y.n * x.d

Leq(x, y) == x = y \/ Less(x, y)

RECURSIVE SumSeq(_)
SumSeq(s) == IF s = << >> THEN Zero ELSE Add(Head(s), SumSeq(Tail(s)))

\* Series.fillna(0)
FillNa0(x) == IF IsNaN(x) THEN Zero ELSE x

\* the sequence s with its elements evaluated (TLC keeps [i \in S |-> e] unevaluated)
Strict(s) == s \o << >>

Max(S) == CHOOSE x \in S : \A y \in S : y <= x
Min(S) == CHOOSE x \in S : \A y \in S : x <= y

\* ------------------------------------------------------------- the database
\* table names of the store, in the order SHOW TABLES lists them
AllTables == << " XYZ", "CIPLA", "sun_pharma" >>

\* the trading dates of the store: three consecutive dates, the first two in
\* one calendar month and the third in the next
Dates  == {1, 2, 3}

\* str.lower() and str.strip() on the names in scope
Lower(name) ==
    CASE name = "CIPLA" -> "cipla"
      [] name = " XYZ"  -> " xyz"
      [] OTHER          -> name

Strip(name) ==
    CASE name = " xyz"  -> "xyz"
      [] name = " XYZ"  -> "XYZ"
      [] OTHER          -> name

nifty_sector_map ==
    [t \in {"adaniports", "adanienterprises", "bharti_airtel", "bharat_pe"} |-> "Services"]
    @@ [t \in {"adani_green", "adani_power", "ntpc", "power_grid"} |-> "Power"]
    @@ [t \in {"adani_total_gas", "bharat_petroleum", "bpcl", "castrol_india", "gail",
               "ongc", "reliance"} |-> "Oil & Gas"]
    @@ [t \in {"asianpaints", "hindustan_unilever", "titans"} |-> "Consumer Goods"]
    @@ [t \in {"axisbank", "hdfc_bank", "icici_bank", "indusind_bank",
               "kotak_mahindra_bank", "state_bank_of_india"} |-> "Banking"]
    @@ [t \in {"baidulifesciences", "cipla", "divis_labs", "dr_reddys", "sun_pharma"}
           |-> "Pharma"]
    @@ [t \in {"bajaj_auto", "bharatforge", "eicher_motors", "hero_motocorp", "mahindra",
               "maruti_suzuki", "tata_motors"} |-> "Auto"]
    @@ [t \in {"bajaj_finance", "bajaj_finserv", "hdfc", "sbicard"} |-> "Finance"]
    @@ [t \in {"bharat_heavy_electricals", "grasim_industries", "larsen_toubro"}
           |-> "Industrial"]
    @@ [t \in {"bhp", "coal_india"} |-> "Mining"]
    @@ [t \in {"hcl_technologies", "infosys", "tata_consultancy_services",
               "tech_mahindra", "wipro"} |-> "Technology"]
    @@ [t \in {"hindalco_industries", "jsw_steel", "tata_steel"} |-> "Metals"]
    @@ [t \in {"ultratech_cement"} |-> "Cement"]

\* df["ticker"].map(nifty_sector_map).fillna("Unknown")
SectorOf(ticker) ==
    IF ticker \in DOMAIN nifty_sector_map THEN nifty_sector_map[ticker] ELSE "Unknown"

\* a row of the data frame; the derived columns hold NaN / "" / 0 until the
\* script creates them
Row(ticker, date, close) ==
    [ticker |-> ticker, date |-> date, close |-> Num(close), sector |-> "",
     daily_return |-> NaN, cumulative_return |-> NaN, month |-> 0,
     yearly_return |-> NaN]

\* the rows of one table as SELECT * returns them: ascending or descending by date
RECURSIVE TableRows(_, _, _, _)
TableRows(name, tab, order, left) ==
    IF left = {} THEN << >>
    ELSE LET d    == IF order = "asc" THEN Min(left) ELSE Max(left)
             here == IF d \in DOMAIN tab THEN << Row(Lower(name), d, tab[d]) >>
                     ELSE << >>
         IN  here \o TableRows(name, tab, order, left \ {d})

\* load_data(): every table read and tagged with its lower-cased name, concatenated
RECURSIVE load_data(_, _, _)
load_data(db, order, k) ==
    IF k > Len(AllTables) THEN << >>
    ELSE (IF AllTables[k] \in DOMAIN db
          THEN TableRows(AllTables[k], db[AllTables[k]], order, Dates)
          ELSE << >>)
         \o load_data(db, order, k + 1)

\* ------------------------------------------------------ data frame helpers
Tickers(d) == {d[i].ticker : i \in DOMAIN d}

\* the positions of ticker t's rows, in frame order
Group(d, t) == {i \in DOMAIN d : d[i].ticker = t}

\* the position of the previous row of the same ticker, 0 when there is none
PrevIdx(d, i) ==
    LET S == {j \in 1 .. (i - 1) : d[j].ticker = d[i].ticker}
    IN  IF S = {} THEN 0 ELSE Max(S)

\* ------------------------------------------------------------ preprocessing
\* df["ticker"].str.strip().str.lower() and the sector column
Annotate(d) ==
    Strict([i \in DOMAIN d |->
        LET t == Lower(Strip(d[i].ticker))
        IN  [d[i] EXCEPT !.ticker = t, !.sector = SectorOf(t)]])

\* df.sort_values("date"): rows of equal date keep their order (they belong
\* to different tickers, and no grouped computation reads their order)
RECURSIVE SortFrom(_, _)
SortFrom(d, left) ==
    IF left = {} THEN << >>
    ELSE SelectSeq(d, LAMBDA r : r.date = Min(left)) \o SortFrom(d, left \ {Min(left)})

\* the frame left as loaded (the sort forgotten)
SortByDateSkipped(d) == d

SortByDate(d) == SortFrom(d, {d[i].date : i \in DOMAIN d})

\* groupby("ticker")["close"].pct_change(fill_method=None): close / previous - 1
PctChange(d, i) ==
    IF PrevIdx(d, i) = 0 THEN NaN
    ELSE Sub(Div(d[i].close, d[PrevIdx(d, i)].close), One)

WithDailyReturn(d) ==
    Strict([i \in DOMAIN d |-> [d[i] EXCEPT !.daily_return = PctChange(d, i)]])

\* groupby("ticker")["daily_return"].transform(lambda x: (1 + x.fillna(0)).cumprod())
\* the running product without fillna(0)
RECURSIVE CumProdUnfilled(_, _)
CumProdUnfilled(d, i) ==
    LET f == Add(One, d[i].daily_return)
    IN  IF PrevIdx(d, i) = 0 THEN f ELSE Mul(CumProdUnfilled(d, PrevIdx(d, i)), f)

RECURSIVE CumProd(_, _)
CumProd(d, i) ==
    LET f == Add(One, FillNa0(d[i].daily_return))
    IN  IF PrevIdx(d, i) = 0 THEN f ELSE Mul(CumProd(d, PrevIdx(d, i)), f)

\* the running product taken down the whole frame (the groupby forgotten)
RECURSIVE FrameCumProd(_, _)
FrameCumProd(d, i) ==
    LET f == Add(One, FillNa0(d[i].daily_return))
    IN  IF i = 1 THEN f ELSE Mul(FrameCumProd(d, i - 1), f)

WithCumulativeReturnUngrouped(d) ==
    Strict([i \in DOMAIN d |-> [d[i] EXCEPT !.cumulative_return = FrameCumProd(d, i)]])

WithCumulativeReturn(d) ==
    Strict([i \in DOMAIN d |-> [d[i] EXCEPT !.cumulative_return = CumProd(d, i)]])

\* df["date"].dt.to_period("M"): the month a date falls in
MonthOf(date) == ((date - 1) \div 2) + 1

WithMonth(d) ==
    Strict([i \in DOMAIN d |-> [d[i] EXCEPT !.month = MonthOf(d[i].date)]])

\* groupby("ticker").first() / .last() on the close column
FirstClose(d, t) == d[Min(Group(d, t))].close
LastClose(d, t)  == d[Max(Group(d, t))].close

\* the change taken against the last close instead of the first
YearlyOverLast(d) ==
    [t \in Tickers(d) |-> Div(Sub(LastClose(d, t), FirstClose(d, t)), LastClose(d, t))]

\* (latest["close"] - first["close"]) / first["close"]
YearlyOf(d) ==
    [t \in Tickers(d) |-> Div(Sub(LastClose(d, t), FirstClose(d, t)), FirstClose(d, t))]

WithYearlyReturn(d, yearly) ==
    Strict([i \in DOMAIN d |-> [d[i] EXCEPT !.yearly_return = yearly[d[i].ticker]]])

Enrich(d) ==
    WithMonth(WithCumulativeReturn(WithDailyReturn(SortByDate(Annotate(d)))))

\* ------------------------------------------------------- series operations
\* the values of column Col(row) at the positions in idx, in frame order
RECURSIVE ValuesAt(_, _)
ValuesAt(vals, idx) ==
    IF idx = {} THEN << >>
    ELSE << vals[Min(idx)] >> \o ValuesAt(vals, idx \ {Min(idx)})

DropNa(xs) == SelectSeq(xs, LAMBDA x : ~IsNaN(x))

\* Series.mean(): nulls are skipped; NaN when nothing is left
Mean(xs) ==
    LET v == DropNa(xs)
    IN  IF v = << >> THEN NaN ELSE Div(SumSeq(v), Num(Len(v)))

\* the sum of squared deviations of xs from m
RECURSIVE SumSqDev(_, _)
SumSqDev(xs, m) ==
    IF xs = << >> THEN Zero
    ELSE Add(Mul(Sub(Head(xs), m), Sub(Head(xs), m)), SumSqDev(Tail(xs), m))

\* the square of Series.std() (ddof = 1): nulls are skipped, NaN below two
\* observations.  std is its square root, so ordering by one is ordering by
\* the other.
Var(xs) ==
    LET v == DropNa(xs)
    IN  IF Len(v) < 2 THEN NaN
        ELSE Div(SumSqDev(v, Div(SumSeq(v), Num(Len(v)))), Num(Len(v) - 1))

\* sort_values(ascending=False) puts a before b: larger first, nulls last
Before(a, b) ==
    IF IsNaN(a) THEN FALSE ELSE IF IsNaN(b) THEN TRUE ELSE Less(b, a)

\* the positions of keys in descending order (equal keys keep their order)
RankDesc(keys, i) ==
    1 + Cardinality({j \in DOMAIN keys :
                        Before(keys[j], keys[i])
                        \/ (~Before(keys[i], keys[j]) /\ j < i)})

SortDesc(rows, keys) ==
    Strict([p \in DOMAIN rows |->
               rows[CHOOSE i \in DOMAIN rows : RankDesc(keys, i) = p]])

\* Series.head(n)
Head_n(rows, n) == SubSeq(rows, 1, IF Len(rows) < n THEN Len(rows) ELSE n)

\* groupby keys come out sorted; the tickers and sectors in scope, sorted
TickerOrder == << "cipla", "sun_pharma", "xyz" >>
SectorOrder == << "Pharma", "Unknown" >>

SortedTickers(d) == SelectSeq(TickerOrder, LAMBDA t : t \in Tickers(d))
SortedSectors(d) ==
    SelectSeq(SectorOrder, LAMBDA s : s \in {d[i].sector : i \in DOMAIN d})

\* ---------------------------------------------------- yearly returns CSV
\* the name of the Series (latest["close"] - first["close"]) / first["close"]
YearlySeriesName == "close"

\* Series.reset_index(): the index column, then the values under the Series'
\* name (under the integer label 0, written "0", when it has none)
ResetIndexColumns(index_name, series_name) ==
    << index_name, IF series_name = "" THEN "0" ELSE series_name >>

\* DataFrame.rename(columns={old: new}): labels other than old are kept
Rename(columns, old, new) ==
    [k \in DOMAIN columns |-> IF columns[k] = old THEN new ELSE columns[k]]

\* to_csv writes a null as an empty field and any other float as its decimal
\* expansion (repr: the digits that read back as the same float)
CsvField(x) == IF IsNaN(x) THEN [text |-> "empty"] ELSE [text |-> "decimal", value |-> x]

\* df_yearly.reset_index().rename(columns={0: 'yearly_return'}).to_csv(index=False)
YearlyCsv(d, yearly) ==
    [header |-> Rename(ResetIndexColumns("ticker", YearlySeriesName), "0", "yearly_return"),
     rows   |-> LET ts == SortedTickers(d)
                IN  Strict([k \in DOMAIN ts |->
                               << ts[k], CsvField(yearly[ts[k]]) >>])]

\* ------------------------------------------------------------- volatility
DailyReturns(d, t) == ValuesAt([i \in DOMAIN d |-> d[i].daily_return], Group(d, t))

StdByTicker(d) ==
    LET ts == SortedTickers(d)
    IN  Strict([k \in DOMAIN ts |-> [ticker |-> ts[k], std2 |-> Var(DailyReturns(d, ts[k]))]])

TopN == 10

\* df.groupby("ticker")["daily_return"].std().sort_values(ascending=False).head(10)
Volatility(d) ==
    LET s == StdByTicker(d)
    IN  Head_n(SortDesc(s, [k \in DOMAIN s |-> s[k].std2]), TopN)

\* ------------------------------------------------------ sector performance
SectorRows(d, s) == {i \in DOMAIN d : d[i].sector = s}

MeanBySector(d) ==
    LET ss == SortedSectors(d)
    IN  Strict([k \in DOMAIN ss |->
           [sector |-> ss[k],
            yearly_return |-> Mean(ValuesAt([i \in DOMAIN d |-> d[i].yearly_return],
                                           SectorRows(d, ss[k])))]])

\* df.groupby("sector")["yearly_return"].mean().sort_values(ascending=False).reset_index()
SectorPerf(d) ==
    LET m == MeanBySector(d)
    IN  SortDesc(m, [k \in DOMAIN m |-> m[k].yearly_return])

\* ------------------------------------------------------------ correlation
\* the dates of the frame, ascending: the index of the pivot
RECURSIVE Ascending(_)
Ascending(S) == IF S = {} THEN << >> ELSE << Min(S) >> \o Ascending(S \ {Min(S)})

PivotIndex(d) == Ascending({d[i].date : i \in DOMAIN d})

\* pivot_table(index="date", columns="ticker", values="close", aggfunc="mean")
Pivot(d) ==
    LET idx == PivotIndex(d)
    IN  Strict([k \in DOMAIN idx |->
           [t \in Tickers(d) |->
               Mean(ValuesAt([i \in DOMAIN d |-> d[i].close],
                             {i \in Group(d, t) : d[i].date = idx[k]}))]])

\* DataFrame.ffill(): a null cell takes the last value above it, if any
RECURSIVE Ffill(_)
Ffill(p) ==
    IF Len(p) <= 1 THEN p
    ELSE LET above == Ffill(SubSeq(p, 1, Len(p) - 1))
             last  == p[Len(p)]
         IN  Append(above, [t \in DOMAIN last |->
                               IF IsNaN(last[t]) THEN above[Len(above)][t] ELSE last[t]])

\* DataFrame.pct_change(): row over previous row, the first row null
FramePctChange(p) ==
    Strict([k \in DOMAIN p |->
        [t \in DOMAIN p[k] |->
            IF k = 1 THEN NaN ELSE Sub(Div(p[k][t], p[k - 1][t]), One)]])

\* DataFrame.dropna(): rows holding a null are dropped
FrameDropNa(p) == SelectSeq(p, LAMBDA r : \A t \in DOMAIN r : ~IsNaN(r[t]))

Returns(d) == FrameDropNa(FramePctChange(Ffill(Pivot(d))))

\* the sum of (x - mx) * (y - my)
RECURSIVE SumCoDev(_, _, _, _)
SumCoDev(xs, ys, mx, my) ==
    IF xs = << >> THEN Zero
    ELSE Add(Mul(Sub(Head(xs), mx), Sub(Head(ys), my)),
             SumCoDev(Tail(xs), Tail(ys), mx, my))

\* the covariance normalised by the first column alone (a regression slope)
PearsonSlope(rows, a, b) ==
    LET both == SelectSeq(rows, LAMBDA r : IsFinite(r[a]) /\ IsFinite(r[b]))
        xs   == Strict([k \in DOMAIN both |-> both[k][a]])
        ys   == Strict([k \in DOMAIN both |-> both[k][b]])
        n    == Len(both)
        mx   == Div(SumSeq(xs), Num(n))
        my   == Div(SumSeq(ys), Num(n))
        ssx  == SumSqDev(xs, mx)
        cov  == SumCoDev(xs, ys, mx, my)
    IN  IF n < 1 THEN NaN
        ELSE IF ssx = Zero THEN NaN
        ELSE Div(Mul(cov, IF Less(cov, Zero) THEN Neg(cov) ELSE cov), Mul(ssx, ssx))

\* nancorr on two columns: the rows where both are finite; null below one
\* such row or when a column does not vary there.  The coefficient
\* r = cov / sqrt(ssx * ssy) is held as r * |r| = cov * |cov| / (ssx * ssy),
\* an increasing map of [-1, 1] onto itself that fixes -1, 0 and 1.
Pearson(rows, a, b) ==
    LET both == SelectSeq(rows, LAMBDA r : IsFinite(r[a]) /\ IsFinite(r[b]))
        xs   == Strict([k \in DOMAIN both |-> both[k][a]])
        ys   == Strict([k \in DOMAIN both |-> both[k][b]])
        n    == Len(both)
        mx   == Div(SumSeq(xs), Num(n))
        my   == Div(SumSeq(ys), Num(n))
        ssx  == SumSqDev(xs, mx)
        ssy  == SumSqDev(ys, my)
        cov  == SumCoDev(xs, ys, mx, my)
    IN  IF n < 1 THEN NaN
        ELSE IF Mul(ssx, ssy) = Zero THEN NaN
        ELSE Div(Mul(cov, IF Less(cov, Zero) THEN Neg(cov) ELSE cov), Mul(ssx, ssy))

\* returns.corr()
Corr(d) ==
    LET rows == Returns(d)
    IN  [a \in Tickers(d) |-> [b \in Tickers(d) |-> Pearson(rows, a, b)]]

\* --------------------------------------------------------- monthly returns
\* sorted(df["month"].unique())
Months(d) == Ascending({d[i].month : i \in DOMAIN d})

\* the frame unfiltered (the month mask forgotten)
MonthRowsUnfiltered(d, m) == d

\* df[df["month"] == selected_month]
MonthRows(d, m) == SelectSeq(d, LAMBDA r : r.month = m)

\* groupby("ticker")["close"].agg(["first", "last"]), the monthly_return column,
\* sort_values("monthly_return", ascending=False)
MonthlyReturn(d, m) ==
    LET rows == MonthRows(d, m)
        ts   == SortedTickers(rows)
        agg  == Strict([k \in DOMAIN ts |->
                   LET f == FirstClose(rows, ts[k])
                       l == LastClose(rows, ts[k])
                   IN  [ticker |-> ts[k], first |-> f, last |-> l,
                        monthly_return |-> Div(Sub(l, f), f)]])
    IN  SortDesc(agg, [k \in DOMAIN agg |-> agg[k].monthly_return])

\* -------------------------------------------------------------------- state
VARIABLES
    pc,              \* the section of the script to run next
    df,              \* the data frame
    df_yearly,       \* ticker -> yearly return
    csv_yearly,      \* the yearly returns CSV: header and rows
    volatility,      \* the volatility ranking
    sector_perf,     \* the sector performance table
    corr,            \* the correlation matrix
    selected_month,  \* the month of the selector, 0 before it is drawn
    monthly_return   \* the monthly summary of the selected month

vars == << pc, df, df_yearly, csv_yearly, volatility, sector_perf, corr,
           selected_month, monthly_return >>

\* the stores in scope: two tables (two tickers of one sector, or a mapped and
\* an unmapped ticker), each holding at most one row per date, with rows
\* stored oldest-first or newest-first
TableSets == {{"CIPLA", "sun_pharma"}, {"CIPLA", " XYZ"}}

Tables == UNION {[D -> 0 .. MaxClose] : D \in SUBSET Dates}

Databases == UNION {[T -> Tables] : T \in TableSets}

\* the state after df = load_data(), of a store that holds at least one row
Init ==
    /\ pc = "preprocessing"
    /\ \E db \in Databases, order \in {"asc", "desc"} :
          /\ df = load_data(db, order, 1)
          /\ df # << >>
    /\ df_yearly = << >>
    /\ csv_yearly = [header |-> << >>, rows |-> << >>]
    /\ volatility = << >>
    /\ sector_perf = << >>
    /\ corr = << >>
    /\ selected_month = 0
    /\ monthly_return = << >>

\* lines 46-58
Preprocessing ==
    /\ pc = "preprocessing"
    /\ LET e == Enrich(df)
           y == YearlyOf(e)
       IN  /\ df_yearly' = y
           /\ df' = WithYearlyReturn(e, y)
    /\ pc' = "download_yearly"
    /\ UNCHANGED << csv_yearly, volatility, sector_perf, corr, selected_month,
                    monthly_return >>

\* line 72
DownloadYearly ==
    /\ pc = "download_yearly"
    /\ csv_yearly' = YearlyCsv(df, df_yearly)
    /\ pc' = "volatility"
    /\ UNCHANGED << df, df_yearly, volatility, sector_perf, corr, selected_month,
                    monthly_return >>

\* line 90
VolatilityChart ==
    /\ pc = "volatility"
    /\ volatility' = Volatility(df)
    /\ pc' = "sector"
    /\ UNCHANGED << df, df_yearly, csv_yearly, sector_perf, corr, selected_month,
                    monthly_return >>

\* line 112
SectorPerformance ==
    /\ pc = "sector"
    /\ sector_perf' = SectorPerf(df)
    /\ pc' = "correlation"
    /\ UNCHANGED << df, df_yearly, csv_yearly, volatility, corr, selected_month,
                    monthly_return >>

\* lines 120-122
CorrelationHeatmap ==
    /\ pc = "correlation"
    /\ corr' = Corr(df)
    /\ pc' = "monthly"
    /\ UNCHANGED << df, df_yearly, csv_yearly, volatility, sector_perf, selected_month,
                    monthly_return >>

\* lines 131-136.  The selector shows the first month on the first run; picking
\* another month runs the script again on the cached load, which recomputes
\* the tables above to the same values and the monthly summary for that month.
MonthlyReturns ==
    /\ pc \in {"monthly", "done"}
    /\ \E k \in DOMAIN Months(df) :
          /\ pc = "monthly" => k = 1
          /\ selected_month' = Months(df)[k]
          /\ monthly_return' = MonthlyReturn(df, Months(df)[k])
    /\ pc' = "done"
    /\ UNCHANGED << df, df_yearly, csv_yearly, volatility, sector_perf, corr >>

Next ==
    \/ Preprocessing
    \/ DownloadYearly
    \/ VolatilityChart
    \/ SectorPerformance
    \/ CorrelationHeatmap
    \/ MonthlyReturns

Spec == Init /\ [][Next]_vars

\* ------------------------------------------------------------------ claims
\* the states in which a section has just run (no later section changes
\* what it wrote)
Preprocessed == pc = "download_yearly"
Exported     == pc = "volatility"
Ranked       == pc = "sector"
Averaged     == pc = "correlation"
Correlated   == pc = "monthly"
MonthDrawn   == pc = "done"

\* a ticker's records by calendar date, whatever their place in the frame
RowsOf(t)    == {i \in DOMAIN df : df[i].ticker = t}
Earlier(i)   == {j \in RowsOf(df[i].ticker) : df[j].date < df[i].date}
ChronPrev(i) == CHOOSE j \in Earlier(i) : \A k \in Earlier(i) : df[k].date <= df[j].date
ChronFirst(S) == CHOOSE i \in S : \A k \in S : df[i].date <= df[k].date
ChronLast(S)  == CHOOSE i \in S : \A k \in S : df[k].date <= df[i].date

\* (close - previous close) / previous close
FractionalChange(prev, close) == Div(Sub(close, prev), prev)

\* the product of (1 + daily_return) from the ticker's first record up to
\* record i, every null daily_return counted as 0
RECURSIVE Growth(_)
Growth(i) ==
    Mul(IF Earlier(i) = {} THEN One ELSE Growth(ChronPrev(i)),
        Add(One, FillNa0(df[i].daily_return)))

\* the same product with only the first record's null counted as 0
RECURSIVE GrowthFirstNullOnly(_)
GrowthFirstNullOnly(i) ==
    IF Earlier(i) = {} THEN One
    ELSE Mul(GrowthFirstNullOnly(ChronPrev(i)), Add(One, df[i].daily_return))

\* the yearly returns of the tickers in S, one value per ticker
RECURSIVE YearlyOfTickers(_)
YearlyOfTickers(S) ==
    IF S = {} THEN << >>
    ELSE LET t == CHOOSE x \in S : TRUE
         IN  << df_yearly[t] >> \o YearlyOfTickers(S \ {t})

TickersOfSector(s) == {df[i].ticker : i \in {j \in DOMAIN df : df[j].sector = s}}

ValidDailyReturns(t) == {i \in RowsOf(t) : ~IsNaN(df[i].daily_return)}

\* C1: the sector performance of every sector (Unknown included) is the
\* unweighted mean of yearly_return over the tickers of the sector, one value
\* per ticker, whatever the number of records of each ticker
C1_SectorPerfIsMeanOverTickers ==
    Averaged =>
        /\ {sector_perf[k].sector : k \in DOMAIN sector_perf}
               = {df[i].sector : i \in DOMAIN df}
        /\ \A k \in DOMAIN sector_perf :
               sector_perf[k].yearly_return
                  = Mean(YearlyOfTickers(TickersOfSector(sector_perf[k].sector)))

\* C2: the volatility list is sorted descending by standard deviation and
\* holds no ticker with fewer than 2 valid daily_return observations
C2_VolatilitySortedAndDefined ==
    Ranked =>
        /\ \A k \in DOMAIN volatility :
               Cardinality(ValidDailyReturns(volatility[k].ticker)) >= 2
        /\ \A k \in 1 .. (Len(volatility) - 1) :
               /\ ~IsNaN(volatility[k].std2) /\ ~IsNaN(volatility[k + 1].std2)
               /\ Leq(volatility[k + 1].std2, volatility[k].std2)

\* C3 as stated: the cumulative_return of every record is the product of
\* (1 + daily_return) from the series start up to the record, minus 1
C3_CumulativeIsGrowthMinusOne ==
    Preprocessed =>
        \A i \in DOMAIN df : df[i].cumulative_return = Sub(Growth(i), One)

\* C3 amended: the cumulative_return of every record is the product of
\* (1 + daily_return) from the series start up to the record, with nothing
\* subtracted (closes 1, 2, 1 end at 2 * 1/2 = 1, not at 0)
C3_CumulativeIsGrowthFactor ==
    Preprocessed =>
        \A i \in DOMAIN df : df[i].cumulative_return = Growth(i)

\* a ticker with closes 1, 2, 1 whose last cumulative_return is 1
C3_Witness ==
    /\ Preprocessed
    /\ \E i \in DOMAIN df :
          /\ Earlier(i) # {} /\ Earlier(ChronPrev(i)) # {}
          /\ df[ChronPrev(ChronPrev(i))].close = Num(1)
          /\ df[ChronPrev(i)].close = Num(2)
          /\ df[i].close = Num(1)
          /\ df[i].daily_return = Mk(-1, 2)
          /\ df[i].cumulative_return = One

\* C4 as stated: for a ticker with at least 2 observations the final
\* cumulative_return is the product of (1 + daily_return) over the series,
\* the null daily_return of the first observation (and no other) counted as 0
C4_FinalCumulativeFirstNullOnly ==
    Preprocessed =>
        \A t \in Tickers(df) :
            Cardinality(RowsOf(t)) >= 2 =>
                df[ChronLast(RowsOf(t))].cumulative_return
                    = GrowthFirstNullOnly(ChronLast(RowsOf(t)))

\* C4 amended: for a ticker with at least 2 observations the final
\* cumulative_return is the product of (1 + daily_return) over the series,
\* every null daily_return (the first observation's, and the 0/0 of two
\* consecutive zero closes) counted as 0
C4_FinalCumulativeNullsAsZero ==
    Preprocessed =>
        \A t \in Tickers(df) :
            Cardinality(RowsOf(t)) >= 2 =>
                df[ChronLast(RowsOf(t))].cumulative_return = Growth(ChronLast(RowsOf(t)))

\* a ticker of three observations whose returns compound to a factor other
\* than 0 and 1, beside a ticker with a null daily_return after its first
\* observation
C4_Witness ==
    /\ Preprocessed
    /\ \E t \in Tickers(df) :
          /\ Cardinality(RowsOf(t)) = 3
          /\ IsFinite(df[ChronLast(RowsOf(t))].cumulative_return)
          /\ df[ChronLast(RowsOf(t))].cumulative_return \notin {Zero, One}
    /\ \E i \in DOMAIN df : Earlier(i) # {} /\ IsNaN(df[i].daily_return)

\* C5 as stated: yearly_return is (last close - first close) / first close by
\* date, every record of the ticker carries it, and a ticker with a single
\* observation has yearly_return 0
C5_YearlyReturnSingleIsZero ==
    Preprocessed =>
        \A t \in Tickers(df) :
            LET f == df[ChronFirst(RowsOf(t))].close
                l == df[ChronLast(RowsOf(t))].close
            IN  /\ df_yearly[t] = FractionalChange(f, l)
                /\ \A i \in RowsOf(t) : df[i].yearly_return = df_yearly[t]
                /\ Cardinality(RowsOf(t)) = 1 => df_yearly[t] = Zero

\* C5 amended: yearly_return is (last close - first close) / first close by
\* date, every record of the ticker carries it, and a ticker with a single
\* observation has yearly_return 0 when its close is not 0 and null when it is
C5_YearlyReturn ==
    Preprocessed =>
        \A t \in Tickers(df) :
            LET f == df[ChronFirst(RowsOf(t))].close
                l == df[ChronLast(RowsOf(t))].close
            IN  /\ df_yearly[t] = FractionalChange(f, l)
                /\ \A i \in RowsOf(t) : df[i].yearly_return = df_yearly[t]
                /\ Cardinality(RowsOf(t)) = 1 =>
                       df_yearly[t] = (IF f = Zero THEN NaN ELSE Zero)

\* a single observation with a non-zero close, beside a ticker of three
\* observations whose yearly_return is neither 0 nor null nor infinite
C5_Witness ==
    /\ Preprocessed
    /\ \E t \in Tickers(df) :
          /\ Cardinality(RowsOf(t)) = 1
          /\ df[ChronFirst(RowsOf(t))].close # Zero
          /\ df_yearly[t] = Zero
    /\ \E t \in Tickers(df) :
          /\ Cardinality(RowsOf(t)) = 3
          /\ IsFinite(df_yearly[t]) /\ df_yearly[t] # Zero

\* C6: no daily_return, yearly_return or monthly_return is infinite (a zero
\* first or prior close raises or yields null)
C6_NoInfiniteReturn ==
    MonthDrawn =>
    /\ \A i \in DOMAIN df : ~IsInf(df[i].daily_return) /\ ~IsInf(df[i].yearly_return)
    /\ \A k \in DOMAIN monthly_return : ~IsInf(monthly_return[k].monthly_return)

\* reading a CSV field back
ParseCsvField(f) == IF f.text = "empty" THEN NaN ELSE f.value

\* C7: the yearly returns CSV has the header ticker, yearly_return and one
\* row per ticker of the loaded data, holding the ticker's yearly return
C7_YearlyCsv ==
    Exported =>
        /\ csv_yearly.header = << "ticker", "yearly_return" >>
        /\ Len(csv_yearly.rows) = Cardinality(Tickers(df))
        /\ \A t \in Tickers(df) :
               \E k \in DOMAIN csv_yearly.rows :
                   /\ csv_yearly.rows[k][1] = t
                   /\ ParseCsvField(csv_yearly.rows[k][2]) = df_yearly[t]

\* the records of ticker t in the selected month
RowsInMonth(t) == {i \in RowsOf(t) : df[i].month = selected_month}

\* C8: the monthly summary of the selected month holds exactly one row for
\* each ticker with a record in the month and none for any other ticker, and
\* each row's monthly_return is (last close - first close) / first close over
\* the month's records alone
C8_MonthlySummary ==
    MonthDrawn =>
        /\ selected_month \in {df[i].month : i \in DOMAIN df}
        /\ \A t \in Tickers(df) :
               Cardinality({k \in DOMAIN monthly_return : monthly_return[k].ticker = t})
                  = (IF RowsInMonth(t) = {} THEN 0 ELSE 1)
        /\ \A k \in DOMAIN monthly_return :
               LET S == RowsInMonth(monthly_return[k].ticker)
               IN  /\ S # {}
                   /\ monthly_return[k].first = df[ChronFirst(S)].close
                   /\ monthly_return[k].last = df[ChronLast(S)].close
                   /\ monthly_return[k].monthly_return
                         = FractionalChange(df[ChronFirst(S)].close, df[ChronLast(S)].close)

\* a month in which one ticker has no record and the other a non-zero finite
\* monthly_return, although the absent ticker has records in another month
C8_Witness ==
    /\ MonthDrawn
    /\ \E t \in Tickers(df) : RowsInMonth(t) = {}
    /\ \E k \in DOMAIN monthly_return :
          /\ IsFinite(monthly_return[k].monthly_return)
          /\ monthly_return[k].monthly_return # Zero
          /\ df_yearly[monthly_return[k].ticker] # monthly_return[k].monthly_return

\* ticker a's return series varies: two rows of the returns table hold
\* different finite values for it
Varies(a) ==
    LET r == Returns(df)
    IN  \E k, l \in DOMAIN r :
            /\ IsFinite(r[k][a]) /\ IsFinite(r[l][a])
            /\ r[k][a] # r[l][a]

InUnitRange(x) == ~IsNaN(x) /\ Leq(Neg(One), x) /\ Leq(x, One)

C10_DailyReturn ==
    Preprocessed =>
        /\ \A i \in DOMAIN df, j \in DOMAIN df :
               (i < j /\ df[i].ticker = df[j].ticker) => df[i].date < df[j].date
        /\ \A i \in DOMAIN df :
               IF Earlier(i) = {}
               THEN IsNaN(df[i].daily_return) /\ df[i].cumulative_return = One
               ELSE df[i].daily_return
                       = FractionalChange(df[ChronPrev(i)].close, df[i].close)

\* a ticker's record that follows a record of the other ticker in the frame
\* and takes its non-zero finite daily_return from its own previous record
C10_Witness ==
    /\ Preprocessed
    /\ \E i \in DOMAIN df :
          /\ i > 1
          /\ df[i - 1].ticker # df[i].ticker
          /\ Earlier(i) # {}
          /\ df[i - 1].close # df[ChronPrev(i)].close
          /\ IsFinite(df[i].daily_return) /\ df[i].daily_return # Zero

====
